---- MODULE Spec2Model ----
(***************************************************************************)
(* A model of the netkeiba scraper (src/src/netkeiba_scraping/scraper.py): *)
(* the HTTP fetch layer (fetch_with_retry), the identifier discovery       *)
(* (Scraper._fetch_valid_race_ids), the dataset store (Scraper._load,      *)
(* Scraper.save) and the update passes (Scraper._update_races,             *)
(* _update_payouts, _update_horses); the page parsers taken alone          *)
(* (parsers.parse_margin, Scraper._parse_payouts, the identifier columns   *)
(* of Scraper._fetch_race, the pedigree lookup of Scraper._fetch_horse);   *)
(* and the older variant of the program (class Bin of src/scrape.py).      *)
(***************************************************************************)
EXTENDS Integers, Sequences, FiniteSets, Bags, TLC

VARIABLES
    \* ---- fetch_with_retry
    f_pc,        \* "idle" (not called), "loop" (inside the for loop), "returned"
    f_attempt,   \* the loop variable `attempt` of the next iteration (0-based)
    f_outcomes,  \* the outcomes of the GETs issued so far, in order
    f_sleeps,    \* per GET issued: the seconds passed to time.sleep after it (0: no sleep call)
    f_ret,       \* <<"none yet", 0>>, <<"None", 0>>, or <<"response", k>>: the response of the k-th GET
    \* ---- the environment: the clock and the output directory
    today,       \* date.today(), a day number
    runs,        \* how many times the program has been started
    disk,        \* table name -> "missing", "corrupt", or the bag of keys of the rows in the file
    cache_file,  \* race_ids_cache.parquet: "missing" or a set of [race_id, fetched_date, fetched]
    errors_log,  \* errors.log: the bag of its lines <<kind, identifier>>
    site,        \* how the site answers: "any" (each request may succeed or fail), "up", "down", "flaky"
    \* ---- the process: Scraper's fields and the locals of the running method
    pc,          \* where the process is; "stopped" when no process runs
    exit,        \* how the last process ended: "none", "ok", "killed", or the uncaught exception
    from_year,
    races, horses, race_profiles, payouts,     \* the in-memory tables (bags of keys)
    cache_df, first_cached_date, last_cached_date, new_ids, current,
    requested,   \* the dates of the race-list requests issued by this run
    ret_ids,     \* what _fetch_valid_race_ids returned in this run ("none yet" before)
    id_list, n,  \* the sorted identifier list of the running pass, and how many are done
    b_races, b_profiles, b_payouts, b_horses,  \* the keys of the frames in the local batch lists
    payouts_len, \* len(payouts), the local list of _update_payouts (None entries included)
    slept,       \* the time the running pass has spent in its time.sleep calls, in tenths of a second
    success_count, error_count,
    \* ---- a page parser taken alone
    input,       \* what the parser is called with (<<>> when none is)
    result,      \* what the call gave: <<>> before the call, then a record
    \* ---- the older variant: class Bin of src/scrape.py
    bin_pc,      \* "stopped", "races" (the loop of lines 51-69), "horses" (80-87)
    bin,         \* Bin's fields: the key sets of races, horses, race_profiles, and invalid_race_ids
    bin_local,   \* the locals of Bin.update: the identifier list, n, and the batch lists
    pickle,      \* the output file: "missing", "corrupt", or the four saved fields
    bin_runs     \* how many times Bin has been constructed

fetchVars == <<f_pc, f_attempt, f_outcomes, f_sleeps, f_ret>>
envVars == <<today, runs, disk, cache_file, errors_log, site>>
memVars == <<races, horses, race_profiles, payouts>>
discVars == <<cache_df, first_cached_date, last_cached_date, new_ids, current, requested, ret_ids>>
passVars == <<id_list, n, b_races, b_profiles, b_payouts, b_horses, payouts_len, slept,
              success_count, error_count>>
runVars == <<envVars, pc, exit, from_year, memVars, discVars, passVars>>
auxVars == <<input, result, bin_pc, bin, bin_local, pickle, bin_runs>>
vars == <<fetchVars, runVars, auxVars>>

\* scrape.py:12-15  the class attributes: empty frames and an empty set
BinFields == [races |-> {}, horses |-> {}, race_profiles |-> {}, invalid_race_ids |-> {}]

\* No list built, nothing in the batch lists.
BinNoLocals == [id_list |-> <<>>, n |-> 0, races |-> {}, profiles |-> {}, horses |-> {}]

\* Bin was never constructed and no output file exists.
BinIdle ==
    /\ bin_pc = "stopped"
    /\ bin = BinFields
    /\ bin_local = BinNoLocals
    /\ pickle = [state |-> "missing", data |-> BinFields]
    /\ bin_runs = 0

\* No parser is being called and the older variant is not in use.
AuxIdle == input = <<>> /\ result = <<>> /\ BinIdle

(***************************************************************************)
(* Part 1.  fetch_with_retry (scraper.py 20-47)                            *)
(***************************************************************************)

\* scraper.py:21-23
MAX_RETRIES == 3
RETRY_DELAY == 5
RATE_LIMIT_DELAY == 30

\* What one requests.get can do: answer with a status (200, 400, another
\* status), or raise ConnectionError, Timeout, or another RequestException.
GetOutcomes == {"200", "400", "other_status", "ConnectionError", "Timeout", "RequestException"}

\* A mutant of InRange: one iteration too many.
InRangeOneMore(attempt) == attempt <= MAX_RETRIES

\* scraper.py:28  `for attempt in range(max_retries)`
InRange(attempt) == attempt < MAX_RETRIES

\* A mutant of NetworkBackoff: the backoff doubles.
NetworkBackoffDoubling(attempt) == RETRY_DELAY * (2 ^ attempt)

\* scraper.py:43  time.sleep(RETRY_DELAY * (attempt + 1))
NetworkBackoff(attempt) == RETRY_DELAY * (attempt + 1)

\* scraper.py:31-46: the seconds slept after a GET with outcome o in iteration `attempt`
SleepAfter(o, attempt) ==
    CASE o = "200" -> 0
      [] o = "400" -> RATE_LIMIT_DELAY
      [] o = "other_status" -> RETRY_DELAY
      [] o \in {"ConnectionError", "Timeout"} -> NetworkBackoff(attempt)
      [] OTHER -> 0

\* scraper.py:31-46: whether the iteration returns
ReturnsAfter(o) == o \in {"200", "RequestException"}

FetchIdle ==
    /\ f_pc = "idle"
    /\ f_attempt = 0
    /\ f_outcomes = <<>>
    /\ f_sleeps = <<>>
    /\ f_ret = <<"none yet", 0>>

\* scraper.py:26-28: the call, entering the loop
FetchCall ==
    /\ f_pc = "idle"
    /\ f_pc' = "loop"
    /\ f_attempt' = 0
    /\ f_outcomes' = <<>>
    /\ f_sleeps' = <<>>
    /\ f_ret' = <<"none yet", 0>>
    /\ UNCHANGED <<runVars, auxVars>>

\* scraper.py:28-46: one iteration of the loop, the GET answering with outcome o
FetchAttempt(o) ==
    /\ f_pc = "loop"
    /\ InRange(f_attempt)
    /\ f_outcomes' = Append(f_outcomes, o)
    /\ f_sleeps' = Append(f_sleeps, SleepAfter(o, f_attempt))
    /\ IF ReturnsAfter(o)
         THEN /\ f_pc' = "returned"
              /\ f_ret' = IF o = "200" THEN <<"response", Len(f_outcomes) + 1>> ELSE <<"None", 0>>
              /\ f_attempt' = f_attempt
         ELSE /\ f_pc' = "loop"
              /\ f_ret' = f_ret
              /\ f_attempt' = f_attempt + 1
    /\ UNCHANGED <<runVars, auxVars>>

\* scraper.py:47: the loop is exhausted, `return None`
FetchExhausted ==
    /\ f_pc = "loop"
    /\ ~InRange(f_attempt)
    /\ f_pc' = "returned"
    /\ f_ret' = <<"None", 0>>
    /\ UNCHANGED <<f_attempt, f_outcomes, f_sleeps>>
    /\ UNCHANGED <<runVars, auxVars>>

(***************************************************************************)
(* Part 2.  The world the scraper runs in: the calendar, the site, the     *)
(* files of the output directory.                                          *)
(***************************************************************************)

\* Bounds of the model: the latest day the clock reaches, the number of
\* times the program is started, and the length of the long pass of SpecPass.
MaxDay == 4
MaxRuns == 2
PassLen == 205

\* The start years the program is started with (__main__.py:9-14, --from-year).
Years == {2013, 2014}

\* The calendar: days are numbered from 1; days 1 and 2 lie in 2013, the later ones in 2014.
YearOf(d) == IF d <= 2 THEN 2013 ELSE 2014

\* scraper.py:151  date(self.from_year, 1, 1)
Jan1(y) == IF y = 2013 THEN 1 ELSE 3

\* A race identifier is its year followed by a serial number (fixed width).
RaceId(y, s) == y * 1000 + s

\* scraper.py:207  cache_df['race_id'].str[:4].astype(int)
RaceYear(id) == id \div 1000

\* The site: the race identifiers linked from race/list/<d>/ (one race a day,
\* none on day 2), the day a race page gives as its start, the horses of its
\* result table, and whether the page has a payout table.
Listed(d) == IF d = 2 THEN {} ELSE {RaceId(YearOf(d), d)}
StartDay(r) == r % 1000
Entries(r) == {1, r % 1000}
HasPayTable(r) == r % 1000 # 4

\* The four table files, in the order _load reads and save writes them.
TableOrder == <<"races", "horses", "race_profiles", "payouts">>
Tables == {"races", "horses", "race_profiles", "payouts"}
Pos(t) == CHOOSE i \in 1..4 : TableOrder[i] = t

Missing == [state |-> "missing", rows |-> EmptyBag]
Corrupt == [state |-> "corrupt", rows |-> EmptyBag]
File(rows) == [state |-> "ok", rows |-> rows]

\* The table a file holds (nothing when it is missing or unreadable).
Durable(t) == IF disk[t].state = "ok" THEN disk[t].rows ELSE EmptyBag

\* The sorted list of a set of identifiers, sorted(list(ids)): identifiers of
\* one kind have one width, so the lexical order is the numeric one.
\* SortRange sorts a set whose elements lie in lo..hi, by halving the range.

\* A mutant of SortRange: the list comes out in descending order.
RECURSIVE SortRangeDescending(_, _, _)
SortRangeDescending(S, lo, hi) ==
    IF S = {} THEN <<>>
    ELSE IF lo = hi THEN <<lo>>
    ELSE LET mid == (lo + hi) \div 2
         IN SortRangeDescending({x \in S : x > mid}, mid + 1, hi)
               \o SortRangeDescending({x \in S : x <= mid}, lo, mid)

RECURSIVE SortRange(_, _, _)
SortRange(S, lo, hi) ==
    IF S = {} THEN <<>>
    ELSE IF lo = hi THEN <<lo>>
    ELSE LET mid == (lo + hi) \div 2
         IN SortRange({x \in S : x <= mid}, lo, mid) \o SortRange({x \in S : x > mid}, mid + 1, hi)

\* A mutant of SortedSeq: the identifiers are queued twice.
SortedTwice(S) ==
    IF S = {} THEN <<>>
    ELSE LET once == SortRange(S, CHOOSE x \in S : \A y \in S : x <= y, CHOOSE x \in S : \A y \in S : x >= y)
         IN once \o once

\* scraper.py:234, 289, 336  sorted(list(ids))
SortedSeq(S) ==
    IF S = {} THEN <<>>
    ELSE SortRange(S, CHOOSE x \in S : \A y \in S : x <= y, CHOOSE x \in S : \A y \in S : x >= y)

MinDate(rows) == CHOOSE d \in {r.fetched_date : r \in rows} : \A r \in rows : d <= r.fetched_date
MaxDate(rows) == CHOOSE d \in {r.fetched_date : r \in rows} : \A r \in rows : d >= r.fetched_date

(***************************************************************************)
(* Part 3.  The store: Scraper.__init__, _load, save                       *)
(***************************************************************************)

\* scraper.py:79-97: the files are read in order inside one try; the first
\* file that fails to load raises, and `except Exception: pass` leaves it and
\* every later table as the empty DataFrame of __init__.
FirstUnreadable(d) ==
    IF \E i \in 1..4 : d[TableOrder[i]].state = "corrupt"
      THEN CHOOSE i \in 1..4 : /\ d[TableOrder[i]].state = "corrupt"
                               /\ \A j \in 1..(i-1) : d[TableOrder[j]].state # "corrupt"
      ELSE 5

Loaded(d, t) ==
    IF Pos(t) < FirstUnreadable(d) /\ d[t].state = "ok" THEN d[t].rows ELSE EmptyBag

\* scraper.py:99-110: save() writes each table that is not empty, in order.
\* SavedDisk gives the files after the first k-1 writes of save() are done;
\* k = 5 is the whole of save().  `partial` is a write of the k-th file cut
\* short by a stop of the process: to_parquet writes the file in place.
SavedDisk(d, mem, k, partial) ==
    [t \in Tables |->
        IF mem[t] = EmptyBag THEN d[t]
        ELSE IF Pos(t) < k THEN File(mem[t])
        ELSE IF Pos(t) = k /\ partial THEN Corrupt
        ELSE d[t]]

Save(d, mem) == SavedDisk(d, mem, 5, FALSE)

NoCache == [none |-> TRUE, rows |-> {}]

ResetLocals ==
    /\ cache_df' = NoCache
    /\ first_cached_date' = 0
    /\ last_cached_date' = 0
    /\ new_ids' = {}
    /\ current' = 0
    /\ requested' = {}
    /\ ret_ids' = {}
    /\ id_list' = <<>>
    /\ n' = 0
    /\ b_races' = {}
    /\ b_profiles' = {}
    /\ b_payouts' = {}
    /\ b_horses' = {}
    /\ payouts_len' = 0
    /\ slept' = 0
    /\ success_count' = 0
    /\ error_count' = 0

ResetMemory ==
    /\ races' = EmptyBag
    /\ horses' = EmptyBag
    /\ race_profiles' = EmptyBag
    /\ payouts' = EmptyBag

\* __main__.py:22-23, scraper.py:69-77: the program is started on day d with
\* start year y; the constructor loads the tables.
StartRun(d, y) ==
    /\ pc = "stopped"
    /\ runs < MaxRuns
    /\ d >= today
    /\ today' = d
    /\ runs' = runs + 1
    /\ from_year' = y
    /\ races' = Loaded(disk, "races")
    /\ horses' = Loaded(disk, "horses")
    /\ race_profiles' = Loaded(disk, "race_profiles")
    /\ payouts' = Loaded(disk, "payouts")
    /\ pc' = "discovery"
    /\ exit' = "none"
    /\ ResetLocals
    /\ UNCHANGED <<disk, cache_file, errors_log, site, fetchVars, auxVars>>

\* The process ends: normally, by an exception nothing catches, or stopped from outside.
Ends(how) ==
    /\ pc' = "stopped"
    /\ exit' = how

\* The process is stopped from outside at any point between two writes.
Kill ==
    /\ pc # "stopped"
    /\ Ends("killed")
    /\ ResetMemory
    /\ ResetLocals
    /\ UNCHANGED <<today, runs, from_year, disk, cache_file, errors_log, site, fetchVars, auxVars>>

\* An exception nothing catches ends the process with a traceback.
Abort(how) ==
    /\ Ends(how)
    /\ ResetMemory
    /\ ResetLocals

(***************************************************************************)
(* Part 4.  Discovery: Scraper._fetch_valid_race_ids (scraper.py 117-225)  *)
(***************************************************************************)

\* A mutant of EndDate: today is scanned too.
EndDateToday(t) == t

\* scraper.py:152  end_date = date.today() - timedelta(days=1)
EndDate(t) == t - 1

\* scraper.py:155  `if first_cached_date is None or from_date < first_cached_date`
\* (0 stands for None)
BackfillCond(first, fy) == first = 0 \/ Jan1(fy) < first

\* scraper.py:156
FetchUntil(first, end) == IF first # 0 THEN first - 1 ELSE end

\* scraper.py:170  `if last_cached_date and last_cached_date < end_date`
ForwardCond(last, end) == last # 0 /\ last < end

\* scraper.py:210-225  _fetch_race_ids_by_date: the identifiers of the page, or [] when the fetch fails
RaceIdsByDate(d, ok) == IF ok THEN Listed(d) ELSE {}

\* scraper.py:164, 179: the rows appended to new_ids for the day `d`
NewRows(d, ok) == {[race_id |-> r, fetched_date |-> d, fetched |-> FALSE] : r \in RaceIdsByDate(d, ok)}

\* scraper.py:138-144: the cache rows built from race_profiles
Bootstrap(profiles) ==
    {[race_id |-> r, fetched_date |-> StartDay(r), fetched |-> TRUE] : r \in BagToSet(profiles)}

\* scraper.py:184-190: new_ids is concatenated to the cache inside the block
\* of the forward-fill `if` (line 170), so only when that block runs
Merged(cdf, nids, fwd) ==
    IF fwd /\ nids # {}
      THEN [none |-> FALSE, rows |-> cdf.rows \cup nids]
      ELSE cdf

\* scraper.py:193  `if cache_df is not None and not self.race_profiles.empty`
RefreshDue(cdf, profiles) == ~cdf.none /\ profiles # EmptyBag

\* A mutant of Refreshed: the flags are left as they were loaded.
RefreshedStale(rows, profiles) == rows

\* scraper.py:194-195  cache_df['fetched'] = cache_df['race_id'].isin(fetched_ids)
Refreshed(rows, profiles) ==
    {[r EXCEPT !.fetched = (r.race_id \in BagToSet(profiles))] : r \in rows}

\* A mutant of Returned: the fetched flag is not looked at.
ReturnedAll(cdf, fy) ==
    IF cdf.none THEN {}
    ELSE {r.race_id : r \in {x \in cdf.rows : RaceYear(x.race_id) >= fy}}

\* scraper.py:204-208: the returned set
Returned(cdf, fy) ==
    IF cdf.none THEN {}
    ELSE {r.race_id : r \in {x \in cdf.rows : RaceYear(x.race_id) >= fy /\ ~x.fetched}}

\* scraper.py:121-148: the cache is read, or built from race_profiles and written
DiscLoad ==
    /\ pc = "discovery"
    /\ IF cache_file.state = "ok"
         THEN /\ cache_df' = [none |-> FALSE, rows |-> cache_file.rows]
              /\ first_cached_date' = MinDate(cache_file.rows)
              /\ last_cached_date' = MaxDate(cache_file.rows)
              /\ UNCHANGED cache_file
         ELSE IF race_profiles # EmptyBag
           THEN /\ cache_df' = [none |-> FALSE, rows |-> Bootstrap(race_profiles)]
                /\ first_cached_date' = MinDate(Bootstrap(race_profiles))
                /\ last_cached_date' = MaxDate(Bootstrap(race_profiles))
                /\ cache_file' = [state |-> "ok", rows |-> Bootstrap(race_profiles)]
           ELSE /\ cache_df' = NoCache
                /\ first_cached_date' = 0
                /\ last_cached_date' = 0
                /\ UNCHANGED cache_file
    /\ new_ids' = {}
    /\ current' = Jan1(from_year)
    /\ pc' = "backfill"
    /\ UNCHANGED <<today, runs, disk, errors_log, site, exit, from_year, memVars,
                   requested, ret_ids, passVars, fetchVars, auxVars>>

\* scraper.py:159-166: one day of the backfill loop
BackfillDay(ok) ==
    /\ pc = "backfill"
    /\ BackfillCond(first_cached_date, from_year)
    /\ current <= FetchUntil(first_cached_date, EndDate(today))
    /\ requested' = requested \cup {current}
    /\ new_ids' = new_ids \cup NewRows(current, ok)
    /\ current' = current + 1
    /\ UNCHANGED <<envVars, pc, exit, from_year, memVars, cache_df, first_cached_date,
                   last_cached_date, ret_ids, passVars, fetchVars, auxVars>>

\* scraper.py:155-173: the backfill is over (or skipped); the forward fill starts
\* at the day after the last cached date
BackfillDone ==
    /\ pc = "backfill"
    /\ ~(/\ BackfillCond(first_cached_date, from_year)
         /\ current <= FetchUntil(first_cached_date, EndDate(today)))
    /\ pc' = "forward"
    /\ current' = last_cached_date + 1
    /\ UNCHANGED <<envVars, exit, from_year, memVars, cache_df, first_cached_date,
                   last_cached_date, new_ids, requested, ret_ids, passVars, fetchVars, auxVars>>

\* scraper.py:174-181: one day of the forward-fill loop
ForwardDay(ok) ==
    /\ pc = "forward"
    /\ ForwardCond(last_cached_date, EndDate(today))
    /\ current <= EndDate(today)
    /\ requested' = requested \cup {current}
    /\ new_ids' = new_ids \cup NewRows(current, ok)
    /\ current' = current + 1
    /\ UNCHANGED <<envVars, pc, exit, from_year, memVars, cache_df, first_cached_date,
                   last_cached_date, ret_ids, passVars, fetchVars, auxVars>>

\* scraper.py:182-208 and 228-241: the cache is updated, refreshed and written,
\* the set is returned, and _update_races sorts it
DiscReturn ==
    /\ pc = "forward"
    /\ ~(/\ ForwardCond(last_cached_date, EndDate(today))
         /\ current <= EndDate(today))
    /\ LET merged == Merged(cache_df, new_ids, ForwardCond(last_cached_date, EndDate(today)))
           due == RefreshDue(merged, race_profiles)
           final == IF due THEN [none |-> FALSE, rows |-> Refreshed(merged.rows, race_profiles)]
                    ELSE merged
       IN /\ cache_df' = final
          /\ cache_file' = IF due THEN [state |-> "ok", rows |-> final.rows] ELSE cache_file
          /\ ret_ids' = Returned(final, from_year)
          /\ id_list' = SortedSeq(Returned(final, from_year))
    /\ n' = 0
    /\ b_races' = {}
    /\ b_profiles' = {}
    /\ b_payouts' = {}
    /\ slept' = 0
    /\ success_count' = 0
    /\ error_count' = 0
    /\ pc' = "races"
    /\ UNCHANGED <<today, runs, disk, errors_log, site, exit, from_year, memVars,
                   first_cached_date, last_cached_date, new_ids, current, requested,
                   b_horses, payouts_len, fetchVars, auxVars>>

(***************************************************************************)
(* Part 5.  The passes: _update_races, _update_payouts, _update_horses     *)
(***************************************************************************)

\* scraper.py:266, 320, 351  `n % 100 == 0`
CHECKPOINT_EVERY == 100

\* A mutant of CheckpointDue: the first checkpoint is skipped.
CheckpointDueLate(i) == i > CHECKPOINT_EVERY /\ i % CHECKPOINT_EVERY = 0

\* scraper.py:266  `if n > 0 and n % 100 == 0`, n the 0-based index of the identifier just processed
CheckpointDue(i) == i > 0 /\ i % CHECKPOINT_EVERY = 0

\* scraper.py:259, 313, 346  `except (IndexError, AttributeError, ValueError)`
CaughtInPass == {"IndexError", "AttributeError", "ValueError"}

\* What _fetch_race can do for one identifier: return the three frames, return
\* None (no page), or raise while parsing: IndexError, AttributeError and
\* ValueError on missing markup (scraper.py:383-415), KeyError when the result
\* table lacks a column that is dropped or read (scraper.py:417, 445-463).
RaceOutcomes == {"ok", "fetch_failed", "IndexError", "AttributeError", "ValueError", "KeyError"}

\* What _fetch_payouts can do (scraper.py:360-366, 475-551).
PayoutOutcomes == {"ok", "fetch_failed", "ValueError"}

\* What _fetch_horse can do: return the row, return None, raise while parsing
\* (scraper.py:560), or let through a RequestException of the pedigree GET that
\* is neither a ConnectionError nor a Timeout (scraper.py:589-594).
HorseOutcomes == {"ok", "fetch_failed", "IndexError", "AttributeError", "ValueError", "RequestException"}

\* How the site answers the request for identifier id.
SiteAllows(o, id) ==
    CASE site = "up" -> o = "ok"
      [] site = "down" -> o = "fetch_failed"
      [] site = "flaky" -> o = (IF id % 2 = 0 THEN "ok" ELSE "fetch_failed")
      [] OTHER -> TRUE

\* scraper.py:264, 349, 318: the argument of time.sleep in the `finally` of each
\* pass, in tenths of a second (1.0 s, 0.5 s, 1.0 s)
RACE_DELAY == 10
PAYOUT_DELAY == 5
HORSE_DELAY == 10

PassDelay(pass) ==
    CASE pass = "races" -> RACE_DELAY
      [] pass = "payouts" -> PAYOUT_DELAY
      [] pass = "horses" -> HORSE_DELAY

\* A mutant of SleepInFinally: the sleep is at the end of the try block.
SleepInTry(pass, handling) == IF handling = "success" THEN PassDelay(pass) ELSE 0

\* scraper.py:263-264, 317-318, 348-349  `finally: time.sleep(...)`: the sleep
\* follows the attempt however the try statement ended
SleepInFinally(pass, handling) == PassDelay(pass)

\* scraper.py:247-264: what the try statement of a pass does with an outcome
Handling(o) ==
    IF o = "ok" THEN "success"
    ELSE IF o = "fetch_failed" \/ o \in CaughtInPass THEN "error"
    ELSE "raise"

\* scraper.py:268  pd.concat([self.races] + races): the rows are appended
Merge(table, batch) == table (+) SetToBag(batch)

TablesOf(r, h, p, pay) ==
    [t \in Tables |->
        CASE t = "races" -> r
          [] t = "horses" -> h
          [] t = "race_profiles" -> p
          [] t = "payouts" -> pay]

\* The in-memory tables once the batches of the running pass are merged.
MergedMem ==
    TablesOf(Merge(races, b_races), Merge(horses, b_horses),
             Merge(race_profiles, b_profiles), Merge(payouts, b_payouts))

\* scraper.py:267-276, 278-284 (and 321-327, 352-358): merge the batches and save
MergeAndSave ==
    /\ races' = Merge(races, b_races)
    /\ horses' = Merge(horses, b_horses)
    /\ race_profiles' = Merge(race_profiles, b_profiles)
    /\ payouts' = Merge(payouts, b_payouts)
    /\ b_races' = {}
    /\ b_profiles' = {}
    /\ b_payouts' = {}
    /\ b_horses' = {}
    /\ payouts_len' = 0
    /\ disk' = Save(disk, MergedMem)

AtEnd == n = Len(id_list)

\* ---- the race pass (scraper.py:227-285)

\* scraper.py:244-264: one iteration: fetch, parse, count, sleep
RaceFetch(o) ==
    /\ pc = "races"
    /\ ~AtEnd
    /\ SiteAllows(o, id_list[n + 1])
    /\ LET id == id_list[n + 1] IN
       CASE Handling(o) = "success" ->
              /\ b_races' = b_races \cup {id}
              /\ b_profiles' = b_profiles \cup {id}
              /\ b_payouts' = b_payouts \cup (IF HasPayTable(id) THEN {id} ELSE {})
              /\ success_count' = success_count + 1
              /\ slept' = slept + SleepInFinally("races", "success")
              /\ n' = n + 1
              /\ pc' = IF CheckpointDue(n) THEN "races_ckpt" ELSE "races"
              /\ UNCHANGED <<envVars, exit, memVars, discVars, id_list,
                             b_horses, payouts_len, error_count>>
         [] Handling(o) = "error" ->
              /\ error_count' = error_count + 1
              /\ errors_log' = errors_log (+) SetToBag({<<"race", id>>})
              /\ slept' = slept + SleepInFinally("races", "error")
              /\ n' = n + 1
              /\ pc' = IF CheckpointDue(n) THEN "races_ckpt" ELSE "races"
              /\ UNCHANGED <<today, runs, disk, cache_file, site, exit, memVars, discVars,
                             id_list, b_races, b_profiles, b_payouts, b_horses,
                             payouts_len, success_count>>
         [] OTHER ->
              /\ Abort("race: KeyError")
              /\ UNCHANGED envVars
    /\ UNCHANGED <<from_year, fetchVars, auxVars>>

\* scraper.py:266-276: the checkpoint
RaceCheckpoint ==
    /\ pc = "races_ckpt"
    /\ MergeAndSave
    /\ pc' = "races"
    /\ UNCHANGED <<today, runs, cache_file, errors_log, site, exit, from_year, discVars,
                   id_list, n, slept, success_count, error_count, fetchVars, auxVars>>

\* scraper.py:278-285: the final merge and save; update() goes on to _update_payouts
RaceFinal ==
    /\ pc = "races"
    /\ AtEnd
    /\ MergeAndSave
    /\ pc' = "payouts_start"
    /\ UNCHANGED <<today, runs, cache_file, errors_log, site, exit, from_year, discVars,
                   id_list, n, slept, success_count, error_count, fetchVars, auxVars>>

\* ---- the payout pass (scraper.py:330-358)

\* A mutant of MissingPayouts: the payout table is not looked at.
MissingPayoutsAll(profiles, pay) == BagToSet(profiles)

\* scraper.py:331-332
MissingPayouts(profiles, pay) ==
    BagToSet(profiles) \ (IF pay # EmptyBag THEN BagToSet(pay) ELSE {})

\* scraper.py:331-338: the set difference; the pass returns at once when it is empty
PayoutsStart ==
    /\ pc = "payouts_start"
    /\ IF MissingPayouts(race_profiles, payouts) = {}
         THEN /\ pc' = "horses_start"
              /\ UNCHANGED <<id_list, n>>
         ELSE /\ pc' = "payouts"
              /\ id_list' = SortedSeq(MissingPayouts(race_profiles, payouts))
              /\ n' = 0
    /\ slept' = 0
    /\ UNCHANGED <<envVars, exit, from_year, memVars, discVars, b_races, b_profiles,
                   b_payouts, b_horses, payouts_len, success_count, error_count, fetchVars, auxVars>>

\* scraper.py:341-349: one iteration; a None of _fetch_payouts is appended like a frame
PayoutFetch(o) ==
    /\ pc = "payouts"
    /\ ~AtEnd
    /\ SiteAllows(o, id_list[n + 1])
    /\ LET id == id_list[n + 1]
           len == IF o \in {"ok", "fetch_failed"} THEN payouts_len + 1 ELSE payouts_len
       IN /\ b_payouts' = IF o = "ok" /\ HasPayTable(id) THEN b_payouts \cup {id} ELSE b_payouts
          /\ payouts_len' = len
          /\ pc' = IF CheckpointDue(n) /\ len > 0 THEN "payouts_ckpt" ELSE "payouts"
    /\ slept' = slept + SleepInFinally("payouts", Handling(o))
    /\ n' = n + 1
    /\ UNCHANGED <<envVars, exit, from_year, memVars, discVars, id_list, b_races,
                   b_profiles, b_horses, success_count, error_count, fetchVars, auxVars>>

\* scraper.py:351-354
PayoutCheckpoint ==
    /\ pc = "payouts_ckpt"
    /\ MergeAndSave
    /\ pc' = "payouts"
    /\ UNCHANGED <<today, runs, cache_file, errors_log, site, exit, from_year, discVars,
                   id_list, n, slept, success_count, error_count, fetchVars, auxVars>>

\* scraper.py:356-358
PayoutFinal ==
    /\ pc = "payouts"
    /\ AtEnd
    /\ MergeAndSave
    /\ pc' = "horses_start"
    /\ UNCHANGED <<today, runs, cache_file, errors_log, site, exit, from_year, discVars,
                   id_list, n, slept, success_count, error_count, fetchVars, auxVars>>

\* ---- the horse pass (scraper.py:287-328)

\* A mutant of MissingHorses: the horses table is not looked at.
MissingHorsesAll(r, h) == UNION {Entries(x) : x \in BagToSet(r)}

\* scraper.py:288  set(self.races['horse_id']) - set(self.horses.index)
MissingHorses(r, h) == UNION {Entries(x) : x \in BagToSet(r)} \ BagToSet(h)

\* scraper.py:288-299: self.races['horse_id'] raises KeyError on the column-less
\* DataFrame() of __init__, that is when no race row was loaded or merged
HorsesStart ==
    /\ pc = "horses_start"
    /\ IF races = EmptyBag
         THEN /\ Abort("horses: KeyError")
         ELSE /\ pc' = "horses"
              /\ id_list' = SortedSeq(MissingHorses(races, horses))
              /\ n' = 0
              /\ b_horses' = {}
              /\ slept' = 0
              /\ success_count' = 0
              /\ error_count' = 0
              /\ UNCHANGED <<exit, memVars, discVars, b_races, b_profiles, b_payouts, payouts_len>>
    /\ UNCHANGED <<envVars, from_year, fetchVars, auxVars>>

\* scraper.py:301-318: one iteration
HorseFetch(o) ==
    /\ pc = "horses"
    /\ ~AtEnd
    /\ SiteAllows(o, id_list[n + 1])
    /\ LET id == id_list[n + 1] IN
       CASE Handling(o) = "success" ->
              /\ b_horses' = b_horses \cup {id}
              /\ success_count' = success_count + 1
              /\ slept' = slept + SleepInFinally("horses", "success")
              /\ n' = n + 1
              /\ pc' = IF CheckpointDue(n) THEN "horses_ckpt" ELSE "horses"
              /\ UNCHANGED <<envVars, exit, memVars, discVars, id_list, b_races,
                             b_profiles, b_payouts, payouts_len, error_count>>
         [] Handling(o) = "error" ->
              /\ error_count' = error_count + 1
              /\ errors_log' = errors_log (+) SetToBag({<<"horse", id>>})
              /\ slept' = slept + SleepInFinally("horses", "error")
              /\ n' = n + 1
              /\ pc' = IF CheckpointDue(n) /\ b_horses # {} THEN "horses_ckpt" ELSE "horses"
              /\ UNCHANGED <<today, runs, disk, cache_file, site, exit, memVars, discVars,
                             id_list, b_races, b_profiles, b_payouts, b_horses,
                             payouts_len, success_count>>
         [] OTHER ->
              /\ Abort("horse: RequestException")
              /\ UNCHANGED envVars
    /\ UNCHANGED <<from_year, fetchVars, auxVars>>

\* scraper.py:320-323
HorseCheckpoint ==
    /\ pc = "horses_ckpt"
    /\ MergeAndSave
    /\ pc' = "horses"
    /\ UNCHANGED <<today, runs, cache_file, errors_log, site, exit, from_year, discVars,
                   id_list, n, slept, success_count, error_count, fetchVars, auxVars>>

\* scraper.py:325-328, 115, __main__.py:23: the last save; update() returns and the process exits
HorseFinal ==
    /\ pc = "horses"
    /\ AtEnd
    /\ MergeAndSave
    /\ Ends("ok")
    /\ UNCHANGED <<today, runs, cache_file, errors_log, site, from_year, discVars,
                   id_list, n, slept, success_count, error_count, fetchVars, auxVars>>

\* ---- a stop of the process inside save()

SaveDue ==
    \/ pc \in {"races_ckpt", "payouts_ckpt", "horses_ckpt"}
    \/ pc \in {"races", "payouts", "horses"} /\ AtEnd

\* The process is stopped inside save(): the first k-1 files are written, and
\* with `partial` the k-th is left cut short.
KillInSave(k, partial) ==
    /\ SaveDue
    /\ disk' = SavedDisk(disk, MergedMem, k, partial)
    /\ disk' # disk
    /\ Ends("killed")
    /\ ResetMemory
    /\ ResetLocals
    /\ UNCHANGED <<today, runs, cache_file, errors_log, site, from_year, fetchVars, auxVars>>

(***************************************************************************)
(* Part 6.  The specifications                                             *)
(***************************************************************************)

\* The data the output directory holds before the first run of this program:
\* the races of a set L of past race days, fetched by an earlier version of
\* the scraper (profiles, entries and horses, no payouts, no discovery cache:
\* scraper.py:135-137 and 330-334 are written for such data).
LegacyIds == Listed(1) \cup Listed(2)

LegacyDisk(L) ==
    [t \in Tables |->
        CASE t \in {"races", "race_profiles"} -> IF L = {} THEN Missing ELSE File(SetToBag(L))
          [] t = "horses" -> IF L = {} THEN Missing ELSE File(SetToBag(UNION {Entries(r) : r \in L}))
          [] OTHER -> Missing]

ProcessStopped ==
    /\ pc = "stopped"
    /\ exit = "none"
    /\ from_year = 2013
    /\ races = EmptyBag
    /\ horses = EmptyBag
    /\ race_profiles = EmptyBag
    /\ payouts = EmptyBag
    /\ cache_df = NoCache
    /\ first_cached_date = 0
    /\ last_cached_date = 0
    /\ new_ids = {}
    /\ current = 0
    /\ requested = {}
    /\ ret_ids = {}
    /\ id_list = <<>>
    /\ n = 0
    /\ b_races = {}
    /\ b_profiles = {}
    /\ b_payouts = {}
    /\ b_horses = {}
    /\ payouts_len = 0
    /\ slept = 0
    /\ success_count = 0
    /\ error_count = 0

NoRun ==
    /\ today = 3
    /\ runs = 0
    /\ disk = LegacyDisk({})
    /\ cache_file = [state |-> "missing", rows |-> {}]
    /\ errors_log = EmptyBag
    /\ site = "any"
    /\ ProcessStopped

\* The program run again and again over an output directory.  The site has
\* fewer than CHECKPOINT_EVERY races and horses, so no pass reaches a
\* checkpoint (SpecPass has the long passes) and every save is a final one.
Init ==
    /\ FetchIdle
    /\ AuxIdle
    /\ today = 3
    /\ runs = 0
    /\ \E L \in SUBSET LegacyIds : disk = LegacyDisk(L)
    /\ cache_file = [state |-> "missing", rows |-> {}]
    /\ errors_log = EmptyBag
    /\ site = "any"
    /\ ProcessStopped

Next ==
    \/ \E d \in 1..MaxDay, y \in Years : StartRun(d, y)
    \/ DiscLoad
    \/ \E ok \in BOOLEAN : BackfillDay(ok)
    \/ BackfillDone
    \/ \E ok \in BOOLEAN : ForwardDay(ok)
    \/ DiscReturn
    \/ \E o \in RaceOutcomes : RaceFetch(o)
    \/ RaceFinal
    \/ PayoutsStart
    \/ \E o \in PayoutOutcomes : PayoutFetch(o)
    \/ PayoutFinal
    \/ HorsesStart
    \/ \E o \in HorseOutcomes : HorseFetch(o)
    \/ HorseFinal
    \/ Kill
    \/ \E k \in 1..4, partial \in BOOLEAN : KillInSave(k, partial)

Spec == Init /\ [][Next]_vars

\* fetch_with_retry called once, the GETs answering in every possible way.
InitFetch == FetchIdle /\ AuxIdle /\ NoRun

NextFetch ==
    \/ FetchCall
    \/ \E o \in GetOutcomes : FetchAttempt(o)
    \/ FetchExhausted

SpecFetch == InitFetch /\ [][NextFetch]_vars


\* One run with long passes: discovery has returned the PassLen races of a
\* busy day 3 (legacy = {}), or the output directory already holds those
\* races without payouts and horses (legacy = all of them), and the site is
\* up, down or answers every other identifier.
BigIds == {RaceId(2014, s) : s \in 1..PassLen}

BigCache(legacy) ==
    {[race_id |-> r, fetched_date |-> 3, fetched |-> (r \in legacy)] : r \in BigIds}

InitPass ==
    /\ FetchIdle
    /\ AuxIdle
    /\ today = 4
    /\ runs = 1
    /\ errors_log = EmptyBag
    /\ site \in {"up", "down", "flaky"}
    /\ pc = "races"
    /\ exit = "none"
    /\ from_year = 2014
    /\ \E legacy \in {{}, BigIds} :
         /\ disk = [t \in Tables |->
                      IF t \in {"races", "race_profiles"} /\ legacy # {}
                        THEN File(SetToBag(legacy)) ELSE Missing]
         /\ races = SetToBag(legacy)
         /\ race_profiles = SetToBag(legacy)
         /\ cache_file = [state |-> "ok", rows |-> BigCache(legacy)]
         /\ cache_df = [none |-> FALSE, rows |-> BigCache(legacy)]
         /\ ret_ids = BigIds \ legacy
         /\ id_list = SortedSeq(BigIds \ legacy)
    /\ horses = EmptyBag
    /\ payouts = EmptyBag
    /\ first_cached_date = 3
    /\ last_cached_date = 3
    /\ new_ids = {}
    /\ current = 4
    /\ requested = {}
    /\ n = 0
    /\ b_races = {}
    /\ b_profiles = {}
    /\ b_payouts = {}
    /\ b_horses = {}
    /\ payouts_len = 0
    /\ slept = 0
    /\ success_count = 0
    /\ error_count = 0

NextPass ==
    \/ \E o \in RaceOutcomes : RaceFetch(o)
    \/ RaceCheckpoint
    \/ RaceFinal
    \/ PayoutsStart
    \/ \E o \in PayoutOutcomes : PayoutFetch(o)
    \/ PayoutCheckpoint
    \/ PayoutFinal
    \/ HorsesStart
    \/ \E o \in HorseOutcomes : HorseFetch(o)
    \/ HorseCheckpoint
    \/ HorseFinal
    \/ Kill
    \/ \E k \in 1..4, partial \in BOOLEAN : KillInSave(k, partial)

SpecPass == InitPass /\ [][NextPass]_vars

\* The program started again, with its default start year, over the output
\* directory an interrupted run left: the first run of Spec, on day 3 over the
\* legacy race of day 1, wrote the discovery cache and was stopped while its
\* final save of the race pass rewrote races.parquet.
InterruptedDisk == [LegacyDisk(LegacyIds) EXCEPT !["races"] = Corrupt]

InterruptedCache == [state |-> "ok", rows |-> Bootstrap(SetToBag(LegacyIds))]

InitResume ==
    /\ FetchIdle
    /\ AuxIdle
    /\ today = 3
    /\ runs = 0
    /\ disk = InterruptedDisk
    /\ cache_file = InterruptedCache
    /\ errors_log = EmptyBag
    /\ site = "any"
    /\ ProcessStopped

\* The cache starts at the 1st of January of the start year, so no run has
\* days to backfill.
NextResume ==
    \/ \E d \in 1..MaxDay : StartRun(d, 2013)
    \/ DiscLoad
    \/ BackfillDone
    \/ \E ok \in BOOLEAN : ForwardDay(ok)
    \/ DiscReturn
    \/ \E o \in RaceOutcomes : RaceFetch(o)
    \/ RaceFinal
    \/ PayoutsStart
    \/ \E o \in PayoutOutcomes : PayoutFetch(o)
    \/ PayoutFinal
    \/ HorsesStart
    \/ \E o \in HorseOutcomes : HorseFetch(o)
    \/ HorseFinal
    \/ Kill
    \/ \E k \in 1..4, partial \in BOOLEAN : KillInSave(k, partial)

SpecResume == InitResume /\ [][NextResume]_vars

\* The program run again and again as in Spec, the clock reaching one day
\* more: on day MaxDay + 1 the races of day MaxDay are in the scanned range.
NextLate ==
    \/ \E d \in 1..(MaxDay + 1), y \in Years : StartRun(d, y)
    \/ DiscLoad
    \/ \E ok \in BOOLEAN : BackfillDay(ok)
    \/ BackfillDone
    \/ \E ok \in BOOLEAN : ForwardDay(ok)
    \/ DiscReturn
    \/ \E o \in RaceOutcomes : RaceFetch(o)
    \/ RaceFinal
    \/ PayoutsStart
    \/ \E o \in PayoutOutcomes : PayoutFetch(o)
    \/ PayoutFinal
    \/ HorsesStart
    \/ \E o \in HorseOutcomes : HorseFetch(o)
    \/ HorseFinal
    \/ Kill
    \/ \E k \in 1..4, partial \in BOOLEAN : KillInSave(k, partial)

SpecLate == Init /\ [][NextLate]_vars

\* The output directory of InitResume, as Spec reaches it.
InterruptedRunLeft ==
    /\ pc = "stopped"
    /\ exit = "killed"
    /\ today = 3
    /\ disk = InterruptedDisk
    /\ cache_file = InterruptedCache
    /\ errors_log = EmptyBag


(***************************************************************************)
(* Part 7.  The claims                                                     *)
(***************************************************************************)

RunningPass == pc \in {"races", "payouts", "horses"}

\* C1: in the race, payout and horse pass no failure of fetching or parsing one
\* identifier aborts the pass: whatever the fetch or the parser does for the
\* identifier at hand, the loop goes on to the next identifier and keeps the
\* rows accumulated so far (a stop of the process from outside is not a failure
\* of an identifier).
C1_NoFailureAbortsPass ==
    [][(RunningPass /\ ~AtEnd /\ exit' # "killed")
          => /\ n' = n + 1
             /\ id_list' = id_list
             /\ b_races \subseteq b_races'
             /\ b_profiles \subseteq b_profiles'
             /\ b_payouts \subseteq b_payouts'
             /\ b_horses \subseteq b_horses']_vars

\* The identifiers whose rows are in memory (in a table or in a batch of the
\* running pass) and not in the table's file: what a stop of the process loses.
AtRisk(t) == BagToSet(MergedMem[t]) \ BagToSet(Durable(t))

C3_AppendOnly ==
    [][\A t \in Tables :
          (disk[t].state = "ok" /\ disk'[t].state = "ok")
             => \A id \in BagToSet(disk[t].rows) :
                   CopiesIn(id, disk'[t].rows) >= CopiesIn(id, disk[t].rows)]_vars

\* C4: fetch_with_retry issues at most 3 requests; a 200 answer is the last
\* request and its response is what is returned; otherwise the call ends by
\* returning None, also after three timeouts; every request, a 400 answer
\* included, uses one attempt of the budget.
C4_BoundedRetry ==
    LET len == Len(f_outcomes) IN
    /\ len <= 3
    /\ \A k \in 1..len :
          f_outcomes[k] = "200" => (k = len /\ f_pc = "returned" /\ f_ret = <<"response", k>>)
    /\ (f_pc = "returned" /\ (len = 0 \/ f_outcomes[len] # "200")) => f_ret = <<"None", 0>>
    /\ f_pc = "loop" => f_attempt = len
    /\ (f_pc = "loop" /\ len = 3) => ENABLED FetchExhausted
    /\ f_pc = "returned" => (len = 3 \/ f_outcomes[len] \in {"200", "RequestException"})

C4_Witness ==
    /\ f_pc = "returned"
    /\ f_outcomes = <<"Timeout", "Timeout", "Timeout">>
    /\ f_ret = <<"None", 0>>

DiscoveryReturned == pc = "races" /\ n = 0

CacheIds(rows) == {r.race_id : r \in rows}

\* The rows found by the backfill loop: those of the days before the earliest
\* cached date, or of every scanned day when there was no cache.
BackfillFound ==
    {r \in new_ids : first_cached_date = 0 \/ r.fetched_date < first_cached_date}

\* C6: every identifier found during the backfill is in the cache after the
\* discovery, with fetched = false and in the returned set when it is not in
\* race_profiles; also on a first run without cache and profiles.
C6_BackfillCached ==
    DiscoveryReturned =>
       \A r \in BackfillFound :
          /\ ~cache_df.none
          /\ r.race_id \in CacheIds(cache_df.rows)
          /\ r.race_id \notin BagToSet(race_profiles) =>
                /\ r.race_id \in ret_ids
                /\ \E c \in cache_df.rows : c.race_id = r.race_id /\ ~c.fetched

\* C7: discovery never scans today or a later day, and no date in the cache
\* (in memory or in the file) is later than the day before the run.
C7_NeverScansToday ==
    /\ \A d \in requested : d <= today - 1
    /\ \A r \in new_ids \cup cache_df.rows \cup cache_file.rows : r.fetched_date <= today - 1

C7_Witness ==
    /\ DiscoveryReturned
    /\ Listed(today) # {}
    /\ (today - 1) \in requested
    /\ \E r \in cache_file.rows : r.fetched_date = today - 1

\* C8: when discovery returns, the cache file holds every identifier of the
\* in-memory cache with its recomputed fetched flag, whether or not
\* race_profiles is empty.
C8_CachePersisted ==
    DiscoveryReturned =>
       \A id \in CacheIds(cache_df.rows) :
          /\ cache_file.state = "ok"
          /\ \E c \in cache_file.rows :
                c.race_id = id /\ c.fetched = (id \in BagToSet(race_profiles))

C10_ReturnedExact ==
    DiscoveryReturned =>
       ret_ids = {id \in CacheIds(cache_df.rows) : RaceYear(id) >= from_year}
                    \ BagToSet(race_profiles)

\* C11: every invocation of update runs to the end of the horse pass: the
\* payout pass and the horse pass are entered whatever the tables hold (also
\* empty tables on a first run); the step that starts a pass never ends the
\* process, unless the process is stopped from outside.
C11_UpdateCompletes ==
    [][(pc \in {"payouts_start", "horses_start"}) => exit' \in {"none", "killed"}]_vars

Range(seq) == {seq[i] : i \in 1..Len(seq)}

Ascending(seq) == \A i \in 1..(Len(seq) - 1) : seq[i] < seq[i + 1]

\* The position of a point of the program in the order discovery, race pass,
\* payout pass, horse pass, exit.
PassRank(p) ==
    CASE p \in {"discovery", "backfill", "forward"} -> 0
      [] p \in {"races", "races_ckpt"} -> 1
      [] p \in {"payouts_start", "payouts", "payouts_ckpt"} -> 2
      [] p \in {"horses_start", "horses", "horses_ckpt"} -> 3
      [] OTHER -> 4

\* C12: the order of processing in a run is fixed: the race pass, then the
\* payout pass, then the horse pass, a pass being left only when all its
\* identifiers are processed; within a pass the identifiers are processed in
\* ascending order, one at a time.
C12_FixedOrder ==
    /\ [](Ascending(id_list) /\ n <= Len(id_list))
    /\ [][/\ (pc # "stopped" /\ pc' # "stopped") => PassRank(pc') >= PassRank(pc)
          /\ (PassRank(pc) \in 1..3 /\ PassRank(pc') > PassRank(pc) /\ exit' \in {"none", "ok"})
                => (AtEnd \/ pc \in {"payouts_start", "horses_start"})
          /\ (pc # "stopped" /\ PassRank(pc') = PassRank(pc)
                /\ pc \notin {"payouts_start", "horses_start"})
                => (id_list' = id_list /\ n' \in {n, n + 1})]_vars

C12_Witness ==
    /\ pc = "payouts"
    /\ Len(id_list) >= 2
    /\ n = 2
    /\ id_list[1] < id_list[2]

\* C13: in every pass each attempt on an identifier is followed by the pass's
\* fixed delay (1.0 s in the race and horse passes, 0.5 s in the payout pass),
\* whatever the outcome: the pass has slept once per identifier attempted.
C13_DelayAfterEachAttempt ==
    /\ pc \in {"races", "races_ckpt"} => slept = 10 * n
    /\ pc \in {"payouts", "payouts_ckpt"} => slept = 5 * n
    /\ pc \in {"horses", "horses_ckpt"} => slept = 10 * n

C13_Witness ==
    /\ pc = "payouts"
    /\ n = 2
    /\ payouts_len = 1
    /\ slept = 10

\* C14: in the race pass every processed identifier is counted exactly once:
\* a success increments the success counter and accumulates its rows, a
\* failure increments the error counter, appends one error-log line of kind
\* "race" with the identifier and accumulates no rows; after each identifier
\* the two counters add up to the number of identifiers processed.
C14_CountedOnce ==
    [][(pc = "races" /\ ~AtEnd /\ exit' # "killed") =>
          LET id == id_list[n + 1] IN
          /\ success_count' + error_count' = n + 1
          /\ \/ /\ success_count' = success_count + 1
                /\ error_count' = error_count
                /\ errors_log' = errors_log
                /\ b_races' = b_races \cup {id}
                /\ b_profiles' = b_profiles \cup {id}
                /\ b_payouts \subseteq b_payouts'
             \/ /\ error_count' = error_count + 1
                /\ success_count' = success_count
                /\ errors_log' = errors_log (+) SetToBag({<<"race", id>>})
                /\ UNCHANGED <<b_races, b_profiles, b_payouts>>]_vars

\* C15: the payout pass processes exactly the race identifiers that are in
\* race_profiles and have no row in the payout table when the pass starts, and
\* issues no request when there is none.
C15_PayoutSetDifference ==
    [][(pc = "payouts_start" /\ pc' # "stopped") =>
          LET missing == BagToSet(race_profiles) \ BagToSet(payouts) IN
          IF missing = {}
            THEN pc' = "horses_start"
            ELSE /\ pc' = "payouts"
                 /\ Range(id_list') = missing
                 /\ Len(id_list') = Cardinality(missing)
                 /\ n' = 0]_vars

C15_Witness ==
    /\ pc = "payouts"
    /\ n = 0
    /\ payouts # EmptyBag
    /\ Range(id_list) = BagToSet(race_profiles) \ BagToSet(payouts)

\* C16: the horse pass processes exactly the horses referenced by a race entry
\* that are not a key of the horses table; a row is created only for such a
\* horse; at the end of the pass each of them has a row in the horses table or
\* an error-log line of kind "horse".
C16_HorseSetDifference ==
    /\ [](/\ pc \in {"horses", "horses_ckpt"} =>
               /\ b_horses \subseteq {id_list[i] : i \in 1..n}
               /\ \A h \in Range(id_list) : \E r \in BagToSet(races) : h \in Entries(r)
          /\ (pc = "stopped" /\ exit = "ok") =>
               \A h \in Range(id_list) :
                  \/ CopiesIn(h, horses) >= 1
                  \/ CopiesIn(<<"horse", h>>, errors_log) >= 1)
    /\ [][(pc = "horses_start" /\ pc' = "horses") =>
             /\ Range(id_list') = {h \in UNION {Entries(r) : r \in BagToSet(races)} :
                                      CopiesIn(h, horses) = 0}
             /\ n' = 0]_vars

C16_Witness ==
    /\ pc = "stopped"
    /\ exit = "ok"
    /\ Len(id_list) >= 1
    /\ CopiesIn(id_list[1], horses) = 1
    /\ success_count = 1

\* The identifiers the running pass has attempted.
Attempted == {id_list[i] : i \in 1..n}

\* C17: there is no re-queuing within a run: no identifier is queued twice in
\* a pass, and an attempt, failed or not, is on an identifier the pass has not
\* attempted before and is followed by the next identifier of the list.
C17_NoRequeue ==
    /\ [](Cardinality(Range(id_list)) = Len(id_list))
    /\ [][(RunningPass /\ ~AtEnd /\ pc' # "stopped") =>
             /\ id_list[n + 1] \notin Attempted
             /\ Attempted' = Attempted \cup {id_list[n + 1]}
             /\ id_list' = id_list]_vars

C17_Witness ==
    /\ pc = "horses"
    /\ AtEnd
    /\ error_count >= 1
    /\ CopiesIn(<<"horse", id_list[n]>>, errors_log) >= 1

\* C18: a failed race identifier is not excluded: a race identifier whose
\* attempt failed in the race pass of the first run is returned again by the
\* discovery of the second run (both runs have the start year 2013).
C18_FailedRetriedNextRun ==
    (DiscoveryReturned /\ runs = 2) =>
       \A r \in {x[2] : x \in {y \in BagToSet(errors_log) : y[1] = "race"}} : r \in ret_ids

\* C19: the merge of a batch into an in-memory table leaves no duplicate
\* rows for a key: no table holds the rows of an identifier twice.
C19_MergeNoDuplicates ==
    \A t \in Tables : \A id \in BagToSet(MergedMem[t]) : CopiesIn(id, MergedMem[t]) = 1

\* C20: the race_profiles table holds at most one row per race identifier, in
\* memory (the batch of the running pass included) and on disk.
C20_OneProfilePerRace ==
    /\ \A id \in BagToSet(MergedMem["race_profiles"]) : CopiesIn(id, MergedMem["race_profiles"]) = 1
    /\ \A id \in BagToSet(Durable("race_profiles")) : CopiesIn(id, Durable("race_profiles")) = 1

C20_Witness ==
    \E id \in BagToSet(Durable("race_profiles")) :
       /\ id \notin LegacyIds
       /\ CopiesIn(id, Durable("race_profiles")) = 1
       /\ CopiesIn(id, race_profiles) = 1

\* The in-memory tables of the Store.
Mem == TablesOf(races, horses, race_profiles, payouts)

\* The tables a new process reads from the files d.
LoadedAll(d) == [t \in Tables |-> Loaded(d, t)]

\* C21: save followed by load is the identity on the four tables: in every
\* state of a running process, writing the in-memory tables with save() and
\* reading them with _load() gives the tables that were in memory, and a
\* second save leaves the files as the first one wrote them.
C21_SaveLoadIdentity ==
    pc # "stopped" =>
       LET saved == Save(disk, Mem) IN
       /\ LoadedAll(saved) = Mem
       /\ Save(saved, LoadedAll(saved)) = saved

\* C27: for every race identifier the durable races table holds the entry
\* rows of at most one fetch of that race, also when the process is stopped
\* between the writes of the table files inside one save().
C27_DurableRacesOnce ==
    \A id \in BagToSet(Durable("races")) : CopiesIn(id, Durable("races")) = 1

\* The days the cache file spans: from its earliest to its latest date.
CachedSpan ==
    IF cache_file.state = "ok" /\ cache_file.rows # {}
      THEN MinDate(cache_file.rows)..MaxDate(cache_file.rows)
      ELSE {}

\* C28: no calendar day is skipped for good by discovery: no day whose races
\* are not in the cache lies inside the span of the cache file, where no run
\* scans again (the backfill scans the days before the span, the forward fill
\* the days after it).
C28_NoDaySkipped ==
    \A d \in CachedSpan : Listed(d) \subseteq CacheIds(cache_file.rows)

\* The output directory holds everything a run fetches: no file is unreadable,
\* the cache lists the races of every day from the 1st of January of the start
\* year to yesterday, every cached race has its profile and its entries, every
\* race whose page has a payout table has its payout rows, every horse of an
\* entry has its row, and no fetch or parse was logged as failed.
Complete ==
    /\ \A t \in Tables : disk[t].state # "corrupt"
    /\ cache_file.state = "ok"
    /\ \A d \in Jan1(from_year)..(today - 1) : Listed(d) \subseteq CacheIds(cache_file.rows)
    /\ BagToSet(Durable("race_profiles")) = CacheIds(cache_file.rows)
    /\ BagToSet(Durable("races")) = CacheIds(cache_file.rows)
    /\ \A r \in CacheIds(cache_file.rows) :
          /\ HasPayTable(r) => CopiesIn(r, Durable("payouts")) >= 1
          /\ \A h \in Entries(r) : CopiesIn(h, Durable("horses")) >= 1
    /\ errors_log = EmptyBag

\* C29: a run is idempotent once everything is fetched: a run over an output
\* directory that holds everything has no identifier to request in its race
\* pass, its payout pass or its horse pass.
C29_IdempotentRun ==
    (Complete /\ RunningPass) => AtEnd

\* C30: every identifier whose fetch or parse fails is visible in the error
\* log, in all three passes: an attempt that ends without rows for the
\* identifier (in the payout pass: for a race whose page has a payout table)
\* appends one line with the kind of the pass and the identifier.
C30_FailureLogged ==
    [][(RunningPass /\ ~AtEnd /\ pc' # "stopped") =>
          LET id == id_list[n + 1]
              kind == CASE pc = "races" -> "race"
                        [] pc = "payouts" -> "payout"
                        [] pc = "horses" -> "horse"
              failed == CASE pc = "races" -> id \notin b_profiles'
                          [] pc = "payouts" -> HasPayTable(id) /\ id \notin b_payouts'
                          [] pc = "horses" -> id \notin b_horses'
          IN failed => errors_log' = errors_log (+) SetToBag({<<kind, id>>})]_vars

(***************************************************************************)
(* Part 8.  The page parsers taken alone.  Each has a specification of     *)
(* its own: Init draws the parser's input from a bounded set, the one      *)
(* action calls the parser and stores what the call gave in `result`.      *)
(***************************************************************************)

\* ---- parsers.parse_margin (parsers.py 10-36)
\* A margin string is modelled by the list of its parts between the
\* separators "." and "+", which is what re.split(r'[.+]', x) makes of it
\* (parsers.py:32): "1.1/2" is <<"1", "1/2">>, "" is <<"">>.  Lengths are
\* counted in sixteenths, so that every constant is an integer.
\* The Japanese tokens are written by their readings: "douchaku" is 同着,
\* "hana" is ハナ, "atama" is アタマ, "kubi" is クビ, "dai" is 大.
MaxParts == 3

\* parsers.py:13-30  the fixed tokens and their constants, in sixteenths
FixedTokens ==
    [t \in {"0", "douchaku", "hana", "atama", "kubi", "1/2", "1/4", "3/4", "dai"} |->
        CASE t = "0" -> 0
          [] t = "douchaku" -> 0
          [] t = "hana" -> 1
          [] t = "atama" -> 2
          [] t = "kubi" -> 4
          [] t = "1/2" -> 8
          [] t = "1/4" -> 4
          [] t = "3/4" -> 12
          [] t = "dai" -> 176]

\* Parts that are no fixed token, with their first character ("" has none).
OtherTokens == {"1", "2", "10", "", "nan"}

\* x[0] of a part that is no fixed token
LeadingChar(t) ==
    CASE t = "1" -> "1"
      [] t = "2" -> "2"
      [] t = "10" -> "1"
      [] t = "nan" -> "n"

\* A float in sixteenths, or the exception the call raised.
Value(v) == [exc |-> "none", v |-> v]
Raised(e) == [exc |-> e, v |-> 0]

\* parsers.py:34  float(x[0]): IndexError on the empty string, ValueError
\* when the first character is no digit
FloatOfLeadingChar(t) ==
    IF t = "" THEN Raised("IndexError")
    ELSE IF LeadingChar(t) \in {"1", "2"}
         THEN Value(IF LeadingChar(t) = "1" THEN 16 ELSE 32)
         ELSE Raised("ValueError")

\* a + b of Python: the left operand is evaluated first, an exception ends it
Plus(a, b) ==
    IF a.exc # "none" THEN a
    ELSE IF b.exc # "none" THEN b
    ELSE Value(a.v + b.v)

\* parsers.py:10-36  parse_margin.  Of a string with separators only the
\* first two parts are read (xs[0] and xs[1], line 36).
RECURSIVE ParseMargin(_)
ParseMargin(x) ==
    IF Len(x) = 1 /\ x[1] \in DOMAIN FixedTokens THEN Value(FixedTokens[x[1]])
    ELSE IF Len(x) = 1 THEN FloatOfLeadingChar(x[1])
    ELSE Plus(ParseMargin(<<x[1]>>), ParseMargin(<<x[2]>>))

\* The strings parse_margin is called with.
MarginParts == DOMAIN FixedTokens \cup OtherTokens
MarginInputs == UNION {[1..k -> MarginParts] : k \in 1..MaxParts}

CallParseMargin ==
    /\ input \in MarginInputs
    /\ result = <<>>
    /\ result' = ParseMargin(input)
    /\ UNCHANGED <<fetchVars, runVars, input, bin_pc, bin, bin_local, pickle, bin_runs>>

InitMargin ==
    /\ FetchIdle /\ NoRun /\ BinIdle
    /\ input \in MarginInputs
    /\ result = <<>>

NextMargin == CallParseMargin

SpecMargin == InitMargin /\ [][NextMargin]_vars

\* C22: parse_margin gives each fixed token its constant, gives a string
\* with a separator the sum of parse_margin of the part before the first
\* separator and parse_margin of the remainder after it, and reads any other
\* token as its first character taken as a digit.
\* Violated: parse_margin reads only the first two parts of a string, so the
\* remainder "1/2+hana" of "1.1/2+hana" counts as 1/2.
RECURSIVE MarginAsStated(_)
MarginAsStated(x) ==
    IF Len(x) = 1 /\ x[1] \in DOMAIN FixedTokens THEN Value(FixedTokens[x[1]])
    ELSE IF Len(x) = 1 THEN FloatOfLeadingChar(x[1])
    ELSE Plus(MarginAsStated(<<Head(x)>>), MarginAsStated(Tail(x)))

C22_MarginSum ==
    (input \in MarginInputs /\ result # <<>>) => result = MarginAsStated(input)

\* What does hold: the value is that of the first two parts.
MarginFirstTwoParts ==
    (input \in MarginInputs /\ result # <<>> /\ Len(input) >= 2)
        => result = Plus(ParseMargin(<<input[1]>>), ParseMargin(<<input[2]>>))

\* ---- Scraper._parse_payouts on one row of a pay table (scraper.py 475-551)
\* A cell is the list of its segments, the pieces between its <br> tags.  A
\* segment is "ok" (a text the conversion accepts), "bad" (a text it does
\* not accept, the empty text included) or "absent" (no node at all between
\* two <br> tags or at an end of the cell).  The text of the "ok" segment
\* at position k of a cell is written k: the combination, the amount or the
\* popularity that stands at position k.  0 is the value of the default '0'.
MaxSub == 2

Segments == {"ok", "bad", "absent"}
Cells == UNION {[1..k -> Segments] : k \in 1..MaxSub}

\* The rows given to the parser: the text of the label cell is in
\* BET_TYPE_MAP or not, and one to three cells follow it.
PayoutInputs ==
    [label : {"known", "unknown"}, cells : UNION {[1..k -> Cells] : k \in 1..3}]

\* The segments of the cell from position k on, each with its position.
RECURSIVE TextsFrom(_, _)
TextsFrom(cell, k) ==
    IF k > Len(cell) THEN <<>>
    ELSE IF cell[k] = "absent" THEN TextsFrom(cell, k + 1)
    ELSE <<[text |-> cell[k], pos |-> k]>> \o TextsFrom(cell, k + 1)

\* scraper.py:526-541  _split_by_br: a segment is appended only `if current:`,
\* so an absent segment leaves no entry and the later ones move up; a cell
\* that gave no entry gives its whole text, which is then empty.
SplitByBr(cell) ==
    IF TextsFrom(cell, 1) = <<>> THEN <<[text |-> "bad", pos |-> 0]>>
    ELSE TextsFrom(cell, 1)

\* scraper.py:494  ['0'] * len(numbers_list) when the row has no fourth cell
Zeros(len) == [i \in 1..len |-> [text |-> "ok", pos |-> 0]]

\* scraper.py:501, 508  list[i] if i < len(list) else '0'
EntryOrZero(list, i) == IF i <= Len(list) THEN list[i] ELSE [text |-> "ok", pos |-> 0]

\* scraper.py:497-521  the body of the loop over numbers_list, for index i:
\* the records it appends (none or one)
SubResult(numbers_list, payout_list, popularity_list, i) ==
    LET payout == EntryOrZero(payout_list, i)
        pop == EntryOrZero(popularity_list, i)
    IN IF numbers_list[i].text # "ok" THEN <<>>
       ELSE IF payout.text # "ok" THEN <<>>
       ELSE <<[numbers |-> numbers_list[i].pos,
               payout |-> payout.pos,
               popularity |-> IF pop.text = "ok" THEN pop.pos ELSE 0]>>

RECURSIVE SubResultsFrom(_, _, _, _)
SubResultsFrom(numbers_list, payout_list, popularity_list, i) ==
    IF i > Len(numbers_list) THEN <<>>
    ELSE SubResult(numbers_list, payout_list, popularity_list, i)
            \o SubResultsFrom(numbers_list, payout_list, popularity_list, i + 1)

\* scraper.py:480-521  the body of the loop over the rows of a pay table
ParsePayoutRow(row) ==
    IF Len(row.cells) < 2 THEN <<>>
    ELSE IF row.label # "known" THEN <<>>
    ELSE LET numbers_list == SplitByBr(row.cells[1])
             payout_list == SplitByBr(row.cells[2])
             popularity_list == IF Len(row.cells) >= 3 THEN SplitByBr(row.cells[3])
                                ELSE Zeros(Len(numbers_list))
         IN SubResultsFrom(numbers_list, payout_list, popularity_list, 1)

CallParsePayouts ==
    /\ input \in PayoutInputs
    /\ result = <<>>
    /\ result' = [rows |-> ParsePayoutRow(input)]
    /\ UNCHANGED <<fetchVars, runVars, input, bin_pc, bin, bin_local, pickle, bin_runs>>

InitPayout ==
    /\ FetchIdle /\ NoRun /\ BinIdle
    /\ input \in PayoutInputs
    /\ result = <<>>

NextPayout == CallParsePayouts

SpecPayout == InitPayout /\ [][NextPayout]_vars

\* C23: for a row with a known label the records are paired by position:
\* there is one record for each position whose combination and amount can
\* both be parsed, it carries the combination and the amount of that
\* position and the popularity of that position (0 when that is missing or
\* cannot be parsed), and the records come in the order of the positions; a
\* row with an unknown label gives no record.
\* Violated: a position that has no amount gets a record with the amount 0,
\* and an absent segment moves the later ones of its cell up by one.
RECURSIVE PairedFrom(_, _)
PairedFrom(row, k) ==
    LET numbers == row.cells[1]
        amounts == row.cells[2]
        pops == IF Len(row.cells) >= 3 THEN row.cells[3] ELSE <<>>
    IN IF k > Len(numbers) THEN <<>>
       ELSE (IF numbers[k] = "ok" /\ k <= Len(amounts) /\ amounts[k] = "ok"
             THEN <<[numbers |-> k, payout |-> k,
                     popularity |-> IF k <= Len(pops) /\ pops[k] = "ok" THEN k ELSE 0]>>
             ELSE <<>>) \o PairedFrom(row, k + 1)

PayoutsAsStated(row) ==
    IF row.label # "known" \/ Len(row.cells) < 2 THEN <<>> ELSE PairedFrom(row, 1)

C23_PairedByPosition ==
    (input \in PayoutInputs /\ result # <<>>) => result.rows = PayoutsAsStated(input)

\* What does hold: the pairing is by position when no cell has an absent
\* segment and the amount cell has as many segments as the combination cell.
PairedWhenCellsAlign ==
    (/\ input \in PayoutInputs /\ result # <<>>
     /\ Len(input.cells) >= 2
     /\ \A c \in 1..Len(input.cells) : \A k \in 1..Len(input.cells[c]) :
            input.cells[c][k] # "absent"
     /\ Len(input.cells[2]) >= Len(input.cells[1]))
        => result.rows = PayoutsAsStated(input)

\* ---- the pedigree lookup of Scraper._fetch_horse (scraper.py 583-634),
\* called once the horse page was fetched and its name parsed (554-560).
\* What a requests.get of the pedigree address can do: answer 200, answer
\* another status, or raise; "RequestException" is one that is neither a
\* ConnectionError nor a Timeout (a broken chunked body, too many redirects).
PedigreeGets == {"200", "non200", "ConnectionError", "Timeout", "RequestException"}

\* The body of a 200 answer: the JSON object with status OK and the pedigree
\* table, the same without the table, an object with another status, a body
\* that is no JSON, and JSON that is no object (null, a list).
PedigreeBodies == {"pedigree", "no_markup", "status_not_OK", "not_json", "not_object"}

PedigreeInputs == [gets : [1..MAX_RETRIES -> PedigreeGets], body : PedigreeBodies]

\* scraper.py:587-594  the loop, from iteration `attempt` (0-based) on, ped_res
\* being "None", "200" or "non200": how many GETs it issues, the ped_res it
\* leaves and the exception that leaves it
RECURSIVE PedigreeLoop(_, _, _)
PedigreeLoop(gets, attempt, ped_res) ==
    IF attempt >= MAX_RETRIES THEN [requests |-> 0, ped_res |-> ped_res, exc |-> "none"]
    ELSE LET get == gets[attempt + 1]
             rest == PedigreeLoop(gets, attempt + 1,
                                  IF get = "non200" THEN "non200" ELSE ped_res)
         IN IF get = "200" THEN [requests |-> 1, ped_res |-> "200", exc |-> "none"]
            ELSE IF get = "RequestException"
                 THEN [requests |-> 1, ped_res |-> ped_res, exc |-> "RequestException"]
            ELSE [rest EXCEPT !.requests = @ + 1]

\* scraper.py:595-631  the body is read under `except (ValueError, KeyError)`:
\* json() raises a ValueError on a body that is no JSON, ped_data.get raises
\* AttributeError when the JSON is no object
PedigreeBody(b) ==
    CASE b = "pedigree" -> [exc |-> "none", pedigree |-> TRUE]
      [] b \in {"no_markup", "status_not_OK", "not_json"} -> [exc |-> "none", pedigree |-> FALSE]
      [] b = "not_object" -> [exc |-> "AttributeError", pedigree |-> FALSE]

\* scraper.py:583-634  what _fetch_horse does after the profile table:
\* `returned` is "row" when it returns the frame, else the exception it raises
FetchPedigree(in) ==
    LET loop == PedigreeLoop(in.gets, 0, "None")
        read == PedigreeBody(in.body)
    IN IF loop.exc # "none"
       THEN [requests |-> loop.requests, returned |-> loop.exc, pedigree |-> FALSE]
       ELSE IF loop.ped_res # "200"
       THEN [requests |-> loop.requests, returned |-> "row", pedigree |-> FALSE]
       ELSE IF read.exc # "none"
       THEN [requests |-> loop.requests, returned |-> read.exc, pedigree |-> FALSE]
       ELSE [requests |-> loop.requests, returned |-> "row", pedigree |-> read.pedigree]

CallFetchPedigree ==
    /\ input \in PedigreeInputs
    /\ result = <<>>
    /\ result' = FetchPedigree(input)
    /\ UNCHANGED <<fetchVars, runVars, input, bin_pc, bin, bin_local, pickle, bin_runs>>

InitPedigree ==
    /\ FetchIdle /\ NoRun /\ BinIdle
    /\ input \in PedigreeInputs
    /\ result = <<>>

NextPedigree == CallFetchPedigree

SpecPedigree == InitPedigree /\ [][NextPedigree]_vars

\* C24: the pedigree lookup issues at most MAX_RETRIES requests and, for
\* every outcome of the lookup, _fetch_horse returns the horse row, with the
\* pedigree fields only when the lookup gave the pedigree.
\* Violated: a request exception that is neither ConnectionError nor Timeout
\* leaves _fetch_horse (and the horse pass, which does not catch it), and
\* a JSON body that is no object raises AttributeError.
C24_PedigreeNeverFatal ==
    (input \in PedigreeInputs /\ result # <<>>)
        => /\ result.requests <= MAX_RETRIES
           /\ result.returned = "row"
           /\ result.pedigree => input.body = "pedigree"

\* What does hold: the lookup is bounded, and timeouts, refused connections,
\* non-200 answers, bodies that are no JSON and missing markup give the row.
PedigreeBounded ==
    (input \in PedigreeInputs /\ result # <<>>)
        => /\ result.requests \in 1..MAX_RETRIES
           /\ (/\ \A k \in 1..MAX_RETRIES : input.gets[k] # "RequestException"
               /\ input.body # "not_object") => result.returned = "row"

\* The horse pass lets the request exception through: the run ends there.
PedigreeFatalInPass ==
    (input \in PedigreeInputs /\ result # <<>> /\ result.returned = "RequestException")
        => Handling(result.returned) = "raise"

\* ---- the identifier columns of Scraper._fetch_race (scraper.py 402-412,
\* 466-467).  The input is what the result table holds: the number of its
\* result rows and, in page order, the hrefs of its horse anchors and of its
\* jockey anchors.
MaxRows == 2

\* Hrefs of horse anchors.  The identifier of a horse is the path segment
\* after /horse/; horses registered abroad have letters in theirs.
HorseHrefs == {"/horse/2019100001/", "/horse/2019100002/", "/horse/000a011df4/"}
JockeyHrefs == {"/jockey/result/recent/01088/", "/jockey/result/recent/05339/"}

\* The identifier an href names.
Identifier(href) ==
    CASE href = "/horse/2019100001/" -> "2019100001"
      [] href = "/horse/2019100002/" -> "2019100002"
      [] href = "/horse/000a011df4/" -> "000a011df4"
      [] href = "/jockey/result/recent/01088/" -> "01088"
      [] href = "/jockey/result/recent/05339/" -> "05339"

\* scraper.py:406, 411  re.findall(r'\d+', a['href']): the runs of digits
DigitRuns(href) ==
    CASE href = "/horse/2019100001/" -> <<"2019100001">>
      [] href = "/horse/2019100002/" -> <<"2019100002">>
      [] href = "/horse/000a011df4/" -> <<"000", "011", "4">>
      [] href = "/jockey/result/recent/01088/" -> <<"01088">>
      [] href = "/jockey/result/recent/05339/" -> <<"05339">>

\* scraper.py:404-412  horse_id_list, jockey_id_list: the first run of each
IdList(anchors) == [k \in 1..Len(anchors) |-> DigitRuns(anchors[k])[1]]

AnchorLists(hrefs) == UNION {[1..k -> hrefs] : k \in 0..(MaxRows + 1)}

IdInputs == [rows : 0..MaxRows, horses : AnchorLists(HorseHrefs), jockeys : AnchorLists(JockeyHrefs)]

\* scraper.py:466-467  race['horse_id'] = horse_id_list, then the same for
\* jockey_id: pandas sets the column by position and raises ValueError when
\* the list is not as long as the frame
AttachIds(in) ==
    IF Len(in.horses) # in.rows \/ Len(in.jockeys) # in.rows
    THEN [exc |-> "ValueError", rows |-> <<>>]
    ELSE [exc |-> "none",
          rows |-> [k \in 1..in.rows |-> [horse_id |-> IdList(in.horses)[k],
                                          jockey_id |-> IdList(in.jockeys)[k]]]]

CallAttachIds ==
    /\ input \in IdInputs
    /\ result = <<>>
    /\ result' = AttachIds(input)
    /\ UNCHANGED <<fetchVars, runVars, input, bin_pc, bin, bin_local, pickle, bin_runs>>

InitIds ==
    /\ FetchIdle /\ NoRun /\ BinIdle
    /\ input \in IdInputs
    /\ result = <<>>

NextIds == CallAttachIds

SpecIds == InitIds /\ [][NextIds]_vars

\* C25: when the result table has as many horse anchors and jockey anchors
\* as rows, row k gets the identifier of the k-th horse anchor and of the
\* k-th jockey anchor; when a count differs, _fetch_race raises an exception
\* that the race pass handles as an error, and returns no row.
\* Violated: the identifier attached is the first run of digits of the
\* href, "000" for the horse 000a011df4.
C25_IdsByPosition ==
    (input \in IdInputs /\ result # <<>>)
        => IF Len(input.horses) = input.rows /\ Len(input.jockeys) = input.rows
           THEN /\ result.exc = "none"
                /\ Len(result.rows) = input.rows
                /\ \A k \in 1..input.rows :
                      /\ result.rows[k].horse_id = Identifier(input.horses[k])
                      /\ result.rows[k].jockey_id = Identifier(input.jockeys[k])
           ELSE Handling(result.exc) = "error" /\ result.rows = <<>>

\* What does hold: the alignment by position, on the first runs of digits,
\* and the error in place of truncation or padding.
IdsAlignedOrError ==
    (input \in IdInputs /\ result # <<>>)
        => IF Len(input.horses) = input.rows /\ Len(input.jockeys) = input.rows
           THEN /\ result.exc = "none"
                /\ Len(result.rows) = input.rows
                /\ \A k \in 1..input.rows :
                      /\ result.rows[k].horse_id = DigitRuns(input.horses[k])[1]
                      /\ result.rows[k].jockey_id = DigitRuns(input.jockeys[k])[1]
           ELSE Handling(result.exc) = "error" /\ result.rows = <<>>

(***************************************************************************)
(* Part 9.  The older variant: class Bin of src/scrape.py.  One pickle     *)
(* file holds the three tables and invalid_race_ids; the constructor loads *)
(* it and runs update().  Tables are modelled by their key sets.           *)
(***************************************************************************)
MaxBinSerial == 2
MaxBinRuns == 3

\* scrape.py:64, 84  `if n % 100 == 0` (n is 0-based: the first save comes
\* with the first identifier)
BinSaveEvery == 100

\* scrape.py:38-44  every identifier the loops generate for the years
\* from_year .. year; the place, meeting, day and race numbers are one serial
BinGenerated(y0, y1) == {RaceId(y, k) : y \in y0..y1, k \in 1..MaxBinSerial}

\* The same without the exclusion of invalid_race_ids.
BinCandidatesAll(generated, profiles, invalid) == generated \ profiles

\* scrape.py:38-45  {...} - set(self.race_profiles.index) - self.invalid_race_ids
BinCandidates(generated, profiles, invalid) == (generated \ profiles) \ invalid

\* What __fetch_race can do (scrape.py:101-173): return the frames, raise one
\* of the two exceptions of a malformed page, raise anything else (a
\* requests exception: the GET has no retry and no handler).
BinRaceOutcomes == {"ok", "IndexError", "AttributeError", "other"}
BinHorseOutcomes == {"ok", "other"}

\* scrape.py:92-99  save(): the four fields are pickled
BinSaved(fields) == [state |-> "ok", data |-> fields]

\* The process is gone: its fields and locals with it.
BinExit ==
    /\ bin_pc' = "stopped"
    /\ bin' = BinFields
    /\ bin_local' = BinNoLocals

\* scrape.py:19-33, 37-49  a new process constructs Bin on day d: the file is
\* loaded (a missing file leaves the class attributes; a file without the
\* key invalid_race_ids gives the tables and leaves the empty set; any
\* other failure of pickle.load leaves the constructor), then update() builds
\* the sorted list of candidates.
BinStart(d) ==
    /\ bin_pc = "stopped"
    /\ bin_runs < MaxBinRuns
    /\ d >= today
    /\ today' = d
    /\ bin_runs' = bin_runs + 1
    /\ IF pickle.state = "corrupt"
       THEN BinExit
       ELSE LET loaded == CASE pickle.state = "missing" -> BinFields
                            [] pickle.state = "legacy" ->
                                 [pickle.data EXCEPT !.invalid_race_ids = {}]
                            [] pickle.state = "ok" -> pickle.data
                race_ids == BinCandidates(BinGenerated(from_year, YearOf(d)),
                                          loaded.race_profiles, loaded.invalid_race_ids)
            IN /\ bin' = loaded
               /\ bin_local' = [BinNoLocals EXCEPT !.id_list = SortedSeq(race_ids)]
               /\ bin_pc' = "races"
    /\ UNCHANGED <<fetchVars, runs, disk, cache_file, errors_log, site, pc, exit, from_year,
                   memVars, discVars, passVars, input, result, pickle>>

\* scrape.py:51-69  one iteration of the race loop
BinRaceFetch(o) ==
    /\ bin_pc = "races"
    /\ bin_local.n < Len(bin_local.id_list)
    /\ LET id == bin_local.id_list[bin_local.n + 1]
           b_r == bin_local.races \cup {id}
           b_p == bin_local.profiles \cup {id}
           merged == [bin EXCEPT !.races = @ \cup b_r, !.race_profiles = @ \cup b_p]
       IN CASE o = "ok" /\ bin_local.n % BinSaveEvery = 0 ->
                 /\ bin' = merged
                 /\ bin_local' = [bin_local EXCEPT !.n = @ + 1, !.races = {}, !.profiles = {}]
                 /\ pickle' = BinSaved(merged)
                 /\ bin_pc' = bin_pc
            [] o = "ok" /\ bin_local.n % BinSaveEvery # 0 ->
                 /\ bin_local' = [bin_local EXCEPT !.n = @ + 1, !.races = b_r,
                                                   !.profiles = b_p]
                 /\ UNCHANGED <<bin, pickle, bin_pc>>
            [] o \in {"IndexError", "AttributeError"} ->
                 /\ bin' = [bin EXCEPT !.invalid_race_ids = @ \cup {id}]
                 /\ bin_local' = [bin_local EXCEPT !.n = @ + 1]
                 /\ UNCHANGED <<pickle, bin_pc>>
            [] o = "other" ->
                 /\ BinExit
                 /\ UNCHANGED pickle
    /\ UNCHANGED <<fetchVars, runVars, input, result, bin_runs>>

\* scrape.py:70-77  after the loop: the rest of the batch is merged, the file
\* saved, and the horse list built; self.races['horse_id'] raises KeyError
\* when races is still the empty DataFrame()
BinRacesFinal ==
    /\ bin_pc = "races"
    /\ bin_local.n = Len(bin_local.id_list)
    /\ LET merged == [bin EXCEPT !.races = @ \cup bin_local.races,
                                 !.race_profiles = @ \cup bin_local.profiles]
           horse_ids == UNION {Entries(r) : r \in merged.races} \ merged.horses
       IN /\ pickle' = BinSaved(merged)
          /\ IF merged.races = {}
             THEN BinExit
             ELSE /\ bin' = merged
                  /\ bin_local' = [BinNoLocals EXCEPT !.id_list = SortedSeq(horse_ids)]
                  /\ bin_pc' = "horses"
    /\ UNCHANGED <<fetchVars, runVars, input, result, bin_runs>>

\* scrape.py:80-87  one iteration of the horse loop; no exception is handled
BinHorseFetch(o) ==
    /\ bin_pc = "horses"
    /\ bin_local.n < Len(bin_local.id_list)
    /\ LET id == bin_local.id_list[bin_local.n + 1]
           b_h == bin_local.horses \cup {id}
           merged == [bin EXCEPT !.horses = @ \cup b_h]
       IN CASE o = "ok" /\ bin_local.n % BinSaveEvery = 0 ->
                 /\ bin' = merged
                 /\ bin_local' = [bin_local EXCEPT !.n = @ + 1, !.horses = {}]
                 /\ pickle' = BinSaved(merged)
                 /\ bin_pc' = bin_pc
            [] o = "ok" /\ bin_local.n % BinSaveEvery # 0 ->
                 /\ bin_local' = [bin_local EXCEPT !.n = @ + 1, !.horses = b_h]
                 /\ UNCHANGED <<bin, pickle, bin_pc>>
            [] o = "other" ->
                 /\ BinExit
                 /\ UNCHANGED pickle
    /\ UNCHANGED <<fetchVars, runVars, input, result, bin_runs>>

\* scrape.py:89-90  the end of update(), and of the constructor
BinHorsesFinal ==
    /\ bin_pc = "horses"
    /\ bin_local.n = Len(bin_local.id_list)
    /\ pickle' = BinSaved([bin EXCEPT !.horses = @ \cup bin_local.horses])
    /\ BinExit
    /\ UNCHANGED <<fetchVars, runVars, input, result, bin_runs>>

\* The process is killed between two steps.
BinKill ==
    /\ bin_pc # "stopped"
    /\ BinExit
    /\ UNCHANGED <<fetchVars, runVars, input, result, pickle, bin_runs>>

\* The process is killed inside the save() that ends a loop: open(.., 'wb')
\* has truncated the file and the dump is not complete (scrape.py:93-99).
BinKillInSave ==
    /\ bin_pc # "stopped"
    /\ bin_local.n = Len(bin_local.id_list)
    /\ pickle' = [state |-> "corrupt", data |-> BinFields]
    /\ BinExit
    /\ UNCHANGED <<fetchVars, runVars, input, result, bin_runs>>

\* A file written before invalid_race_ids was added to save().
BinLegacyPickle ==
    [state |-> "legacy",
     data |-> [races |-> {RaceId(2013, 1)}, horses |-> Entries(RaceId(2013, 1)),
               race_profiles |-> {RaceId(2013, 1)}, invalid_race_ids |-> {}]]

\* No process yet, on day 1; no output file, or one of the earlier format.
InitBin ==
    /\ FetchIdle
    /\ today = 1
    /\ runs = 0
    /\ disk = LegacyDisk({})
    /\ cache_file = [state |-> "missing", rows |-> {}]
    /\ errors_log = EmptyBag
    /\ site = "any"
    /\ ProcessStopped
    /\ input = <<>> /\ result = <<>>
    /\ bin_pc = "stopped"
    /\ bin = BinFields
    /\ bin_local = BinNoLocals
    /\ pickle \in {[state |-> "missing", data |-> BinFields], BinLegacyPickle}
    /\ bin_runs = 0

NextBin ==
    \/ \E d \in 1..MaxDay : BinStart(d)
    \/ \E o \in BinRaceOutcomes : BinRaceFetch(o)
    \/ BinRacesFinal
    \/ \E o \in BinHorseOutcomes : BinHorseFetch(o)
    \/ BinHorsesFinal
    \/ BinKill
    \/ BinKillInSave

SpecBin == InitBin /\ [][NextBin]_vars

\* The identifiers the running race loop has still to fetch.
BinToFetch ==
    IF bin_pc = "races"
    THEN {bin_local.id_list[k] : k \in (bin_local.n + 1)..Len(bin_local.id_list)}
    ELSE {}

\* C26: an identifier of invalid_race_ids, in memory or in the saved file, is
\* never among the identifiers a run has still to fetch, no identifier
\* comes twice in the list of a run, and invalid_race_ids is disjoint from
\* the keys of race_profiles, in memory (batch included) and in the file.
C26_InvalidExcluded ==
    /\ BinToFetch \cap bin.invalid_race_ids = {}
    /\ pickle.state = "ok" => BinToFetch \cap pickle.data.invalid_race_ids = {}
    /\ bin_pc = "races" =>
          \A i, j \in 1..Len(bin_local.id_list) :
              i # j => bin_local.id_list[i] # bin_local.id_list[j]
    /\ bin.invalid_race_ids \cap (bin.race_profiles \cup bin_local.profiles) = {}
    /\ pickle.state = "ok" => pickle.data.invalid_race_ids \cap pickle.data.race_profiles = {}
    /\ (bin_pc # "stopped" /\ pickle.state = "ok") =>
          pickle.data.invalid_race_ids \subseteq bin.invalid_race_ids

\* A later run has loaded a saved state with an invalid identifier and has
\* identifiers to fetch.
C26_Witness ==
    /\ bin_runs >= 2
    /\ bin_pc = "races"
    /\ pickle.state = "ok"
    /\ pickle.data.invalid_race_ids # {}
    /\ BinToFetch # {}

====
